---------------------------- MODULE Spec2Model ----------------------------
(***************************************************************************)
(* State-machine model of src/main.py: the QuantumSimulator class of       *)
(* ALIVE-Game-QuantumMind (a dense state-vector simulator).                *)
(*                                                                         *)
(* Numbers.  Every amplitude the program can produce from the catalog      *)
(* gates lies in the ring Z[w]/sqrt(2)^k with w = exp(i*pi/4).  A complex  *)
(* number is modelled exactly as a 4-tuple <<a,b,c,d>> standing for        *)
(* a + b*w + c*w^2 + d*w^3, and an array carries one common exponent       *)
(* "sde" of the denominator sqrt(2)^sde, kept minimal (Canon).  Rounding   *)
(* of the 64-bit floats is not modelled: equalities are those of the       *)
(* exact values.                                                           *)
(*                                                                         *)
(* The class body is taken as it runs on an interpreter that does not      *)
(* evaluate the return annotation of _initialize_gates (the name Dict is   *)
(* never imported, line 16/58).                                            *)
(***************************************************************************)
EXTENDS Integers, Sequences, FiniteSets, TLC

(* ------------------------------ bounds -------------------------------- *)
\* The simulators explored are those with num_qubits + sde <= MaxSize:
\* num_qubits qubits and a state vector whose denominator is sqrt(2)^sde.
\* The constructor is called with every num_qubits in -1..MaxSize.
MaxSize == 3

VARIABLES
    constructed,   \* TRUE once __init__ has returned normally
    num_qubits,    \* self.num_qubits
    state,         \* self.state: [amp |-> [0..D-1 -> Z[w]], sde |-> k]
    last,          \* the call that has just returned to the caller:
                   \* [op, args, pre (self.state when it began), ret]
    returned,      \* the array the caller holds from get_state_vector
    collapsed      \* the outcome of the last measure() that no apply_gate
                   \* with an effect on the state has followed, or None

vars == <<constructed, num_qubits, state, last, returned, collapsed>>

\* an Optional value is a sequence of length at most one: <<>> is None
None == <<>>
Some(x) == <<x>>

\* what a call hands back to its caller: a value, None, or an exception
Returns(x) == [exc |-> "", val |-> Some(x)]
ReturnsNone == [exc |-> "", val |-> None]
Raises(e) == [exc |-> e, val |-> None]

UnknownGate == "ValueError: Unknown gate"
ShapesNotAligned == "ValueError: shapes not aligned"
NegativeShift == "ValueError: negative shift count"
NotSumToOne == "ValueError: probabilities do not sum to 1"
FloatDimension == "TypeError: 'float' object cannot be interpreted as an integer"

(* --------------------- exact complex arithmetic ----------------------- *)
Zero == <<0, 0, 0, 0>>
One == <<1, 0, 0, 0>>
\* 1j
ImagI == <<0, 0, 1, 0>>
\* np.exp(1j * np.pi / 4)
Omega == <<0, 1, 0, 0>>

CNeg(z) == <<0 - z[1], 0 - z[2], 0 - z[3], 0 - z[4]>>

CAdd(x, y) == <<x[1] + y[1], x[2] + y[2], x[3] + y[3], x[4] + y[4]>>

CMul(x, y) ==
    IF x = Zero \/ y = Zero THEN Zero
    ELSE <<x[1]*y[1] - x[2]*y[4] - x[3]*y[3] - x[4]*y[2],
           x[1]*y[2] + x[2]*y[1] - x[3]*y[4] - x[4]*y[3],
           x[1]*y[3] + x[2]*y[2] + x[3]*y[1] - x[4]*y[4],
           x[1]*y[4] + x[2]*y[3] + x[3]*y[2] + x[4]*y[1]>>

\* z is a multiple of sqrt(2) = w - w^3 in Z[w]
DivisibleBySqrt2(z) == (z[1] - z[3]) % 2 = 0 /\ (z[2] - z[4]) % 2 = 0

DivSqrt2(z) ==
    <<(z[2] - z[4]) \div 2, (z[1] + z[3]) \div 2,
      (z[2] + z[4]) \div 2, (z[3] - z[1]) \div 2>>

\* |z|^2 as <<p, q>> standing for p + q*sqrt(2)
AbsSq(z) ==
    <<z[1]*z[1] + z[2]*z[2] + z[3]*z[3] + z[4]*z[4],
      z[1]*z[2] + z[2]*z[3] + z[3]*z[4] - z[4]*z[1]>>

\* x + y*sqrt(2) > 0
Positive(x, y) ==
    \/ x > 0 /\ y >= 0
    \/ x >= 0 /\ y > 0
    \/ x > 0 /\ y < 0 /\ x*x > 2*y*y
    \/ x < 0 /\ y > 0 /\ 2*y*y > x*x

RECURSIVE Pow2(_)
Pow2(n) == IF n <= 0 THEN 1 ELSE 2 * Pow2(n - 1)

\* the array with the least denominator exponent that has the same value
RECURSIVE Canon(_)
Canon(v) ==
    IF v.sde > 0 /\ \A i \in DOMAIN v.amp : DivisibleBySqrt2(v.amp[i])
    THEN Canon([amp |-> [i \in DOMAIN v.amp |-> DivSqrt2(v.amp[i])],
                sde |-> v.sde - 1])
    ELSE v

(* ------------------------------ matrices ------------------------------ *)
\* a matrix is [rows, cols, e: 0..rows-1 -> 0..cols-1 -> Z[w], sde]: the
\* entries e over the common denominator sqrt(2)^sde
\* np.eye(n)
eye(n) ==
    [rows |-> n, cols |-> n, sde |-> 0,
     e |-> [i \in 0..(n - 1) |->
              [j \in 0..(n - 1) |-> IF i = j THEN One ELSE Zero]]]

\* the Python scalar 1 that _build_single_qubit_gate starts from
Scalar1 == eye(1)

\* np.kron(A, B): block (i, j) of the result is A[i, j] * B
kron(A, B) ==
    [rows |-> A.rows * B.rows, cols |-> A.cols * B.cols,
     sde |-> A.sde + B.sde,
     e |-> [i \in 0..(A.rows * B.rows - 1) |->
              [j \in 0..(A.cols * B.cols - 1) |->
                  CMul(A.e[i \div B.rows][j \div B.cols],
                       B.e[i % B.rows][j % B.cols])]]]

\* np.array(rows, dtype=complex), over the denominator sqrt(2)^k
FromRows(rowsSeq, k) ==
    [rows |-> Len(rowsSeq), cols |-> Len(rowsSeq[1]), sde |-> k,
     e |-> [i \in 0..(Len(rowsSeq) - 1) |->
              [j \in 0..(Len(rowsSeq[1]) - 1) |-> rowsSeq[i + 1][j + 1]]]]

QuantumGate(name, matrix) == [name |-> name, matrix |-> matrix]

\* np.array([[1, 1], [1, -1]]), without the division by np.sqrt(2)
hadamard_unnormalised ==
    QuantumGate("H", FromRows(<< <<One, One>>, <<One, CNeg(One)>> >>, 0))

\* np.array([[1, 1], [1, -1]]) / np.sqrt(2): the factor is sde = 1
hadamard ==
    QuantumGate("H", FromRows(<< <<One, One>>, <<One, CNeg(One)>> >>, 1))

\* _initialize_gates
gates ==
    [I |-> QuantumGate("I", FromRows(<< <<One, Zero>>, <<Zero, One>> >>, 0)),
     X |-> QuantumGate("X", FromRows(<< <<Zero, One>>, <<One, Zero>> >>, 0)),
     Y |-> QuantumGate("Y", FromRows(<< <<Zero, CNeg(ImagI)>>,
                                        <<ImagI, Zero>> >>, 0)),
     Z |-> QuantumGate("Z", FromRows(<< <<One, Zero>>,
                                        <<Zero, CNeg(One)>> >>, 0)),
     H |-> hadamard,
     S |-> QuantumGate("S", FromRows(<< <<One, Zero>>, <<Zero, ImagI>> >>, 0)),
     T |-> QuantumGate("T", FromRows(<< <<One, Zero>>, <<Zero, Omega>> >>, 0)),
     CNOT |-> QuantumGate("CNOT", FromRows(<< <<One, Zero, Zero, Zero>>,
                                              <<Zero, One, Zero, Zero>>,
                                              <<Zero, Zero, Zero, One>>,
                                              <<Zero, Zero, One, Zero>> >>, 0))]

RECURSIVE build_loop(_, _, _, _, _)
build_loop(n, i, result, gate_matrix, target) ==
    IF i >= n THEN result
    ELSE build_loop(n, i + 1,
                    kron(result, IF i = target THEN gate_matrix ELSE eye(2)),
                    gate_matrix, target)

build_single_qubit_gate(n, gate_matrix, target) ==
    build_loop(n, 0, Scalar1, gate_matrix, target)

build_controlled_gate(n, gate_matrix, control, target) ==
    eye(Pow2(n))

\* np.dot(full_matrix, self.state); ok is FALSE when the shapes do not align
dot(M, v) ==
    LET RECURSIVE rowsum(_, _)
        rowsum(i, j) ==
            IF j < 0 THEN Zero
            ELSE CAdd(rowsum(i, j - 1), CMul(M.e[i][j], v.amp[j]))
        product(D) ==
            IF M.cols # D THEN [ok |-> FALSE, v |-> v]
            ELSE [ok |-> TRUE,
                  v |-> Canon([amp |-> [i \in 0..(M.rows - 1) |->
                                           rowsum(i, D - 1)],
                               sde |-> M.sde + v.sde])]
    IN product(Cardinality(DOMAIN v.amp))

(* --------------------------- the simulator ---------------------------- *)
\* np.zeros(D) with [r] = 1.0
OneHot(D, r) ==
    [amp |-> [i \in 0..(D - 1) |-> IF i = r THEN One ELSE Zero], sde |-> 0]

\* the state of a name that is not bound (no simulator was constructed)
NoState == [amp |-> [i \in {} |-> Zero], sde |-> 0]

\* QuantumSimulator.__init__: 2 ** num_qubits is a float for num_qubits < 0
\* and np.zeros refuses it; there is no other check
init(num) ==
    IF num < 0
    THEN [ok |-> FALSE, state |-> NoState, ret |-> Raises(FloatDimension)]
    ELSE [ok |-> TRUE, state |-> OneHot(Pow2(num), 0), ret |-> ReturnsNone]

\* The operators of every call the model makes, evaluated once for all
\* states (the program rebuilds the operator on each call; the value is the
\* same).  Evaluated makes a function an explicit table of its values.
Evaluated(x) == IF x = x THEN x ELSE x

single_qubit_operators ==
    [n \in 0..MaxSize |-> [g \in DOMAIN gates |-> [t \in (0 - 1)..MaxSize |->
        Evaluated(build_single_qubit_gate(n, gates[g].matrix, t))]]]

controlled_operators ==
    [n \in 0..MaxSize |-> [g \in DOMAIN gates |->
        [c \in 0..MaxSize |-> [t \in (0 - 1)..MaxSize |->
            Evaluated(build_controlled_gate(n, gates[g].matrix, c, t))]]]]

\* apply_gate from "gate = self.gates[gate_name]" on: build the operator,
\* then assign self.state unless np.dot raised
apply_known_gate(n, st, gate_name, target_qubit, control_qubit) ==
    LET full_matrix ==
            IF control_qubit # None
            THEN controlled_operators[n][gate_name][control_qubit[1]][
                     target_qubit]
            ELSE single_qubit_operators[n][gate_name][target_qubit]
        assign(r) ==
            IF r.ok THEN [state |-> r.v, ret |-> ReturnsNone]
            ELSE [state |-> st, ret |-> Raises(ShapesNotAligned)]
    IN assign(dot(full_matrix, st))

\* apply_gate that skips a name it does not know instead of raising
apply_gate_skips_unknown(n, st, gate_name, target_qubit, control_qubit) ==
    IF gate_name \notin DOMAIN gates
    THEN [state |-> st, ret |-> ReturnsNone]
    ELSE apply_known_gate(n, st, gate_name, target_qubit, control_qubit)

apply_gate(n, st, gate_name, target_qubit, control_qubit) ==
    IF gate_name \notin DOMAIN gates
    THEN [state |-> st, ret |-> Raises(UnknownGate)]
    ELSE apply_known_gate(n, st, gate_name, target_qubit, control_qubit)

\* np.abs(self.state) ** 2, each entry <<p, q>> over the denominator 2^sde
probabilities(st) == [i \in DOMAIN st.amp |-> AbsSq(st.amp[i])]

\* sum(p[i] for i in range(hi + 1) if i in keep)
SumWhere(p, hi, keep) ==
    LET plus(x, y) == <<x[1] + y[1], x[2] + y[2]>>
        RECURSIVE go(_)
        go(i) ==
            IF i < 0 THEN <<0, 0>>
            ELSE IF i \in keep THEN plus(go(i - 1), p[i])
            ELSE go(i - 1)
    IN go(hi)

\* the squared magnitudes sum to exactly 1 (what np.random.choice demands
\* of p, up to its tolerance)
UnitNorm(st) ==
    SumWhere(probabilities(st), Cardinality(DOMAIN st.amp) - 1, DOMAIN st.amp)
        = <<Pow2(st.sde), 0>>

\* a collapse that sets element 0, whatever was drawn
collapse_all_at_zero(D, result) == OneHot(D, 0)

\* the new self.state after measure() drew result
collapse_all(D, result) == OneHot(D, result)

\* measure() that returns the drawn outcome and leaves self.state as it is
measure_all_without_collapse(n, st) ==
    LET drawn(p) == Positive(p[1], p[2])
    IN IF ~UnitNorm(st)
       THEN {[state |-> st, ret |-> Raises(NotSumToOne)]}
       ELSE {[state |-> st, ret |-> Returns(result)] :
                 result \in {i \in 0..(Pow2(n) - 1) :
                                 drawn(AbsSq(st.amp[i]))}}

\* measure(): the outcomes np.random.choice(num_states, p=probabilities)
\* can draw (it refuses a p that does not sum to 1, and never draws an
\* index of probability 0), each with the state it leaves
measure_all(n, st) ==
    LET drawn(p) == Positive(p[1], p[2])
    IN IF ~UnitNorm(st)
       THEN {[state |-> st, ret |-> Raises(NotSumToOne)]}
       ELSE {[state |-> collapse_all(Pow2(n), result),
              ret |-> Returns(result)] :
                 result \in {i \in 0..(Pow2(n) - 1) :
                                 drawn(AbsSq(st.amp[i]))}}

\* (i >> qubit) & 1
Bit(i, qubit) == (i \div Pow2(qubit)) % 2

\* measure(qubit): 0 when np.random.random() < prob_0, else 1, for a draw
\* in [0, 1); self.state is not assigned on this branch
measure_qubit(n, st, qubit) ==
    IF qubit < 0
    THEN {[state |-> st, ret |-> Raises(NegativeShift)]}
    ELSE LET zero == {i \in 0..(Pow2(n) - 1) : Bit(i, qubit) = 0}
             results(prob_0) ==
                 {r \in {0, 1} :
                     \/ r = 0 /\ Positive(prob_0[1], prob_0[2])
                     \/ r = 1 /\ Positive(Pow2(st.sde) - prob_0[1],
                                          0 - prob_0[2])}
         IN {[state |-> st, ret |-> Returns(r)] :
                 r \in results(SumWhere(probabilities(st), Pow2(n) - 1,
                                        zero))}

\* return self.state: the array of the simulator itself
get_state_vector_without_copy(st) ==
    [alias |-> TRUE, written |-> FALSE, v |-> st]

\* self.state.copy(): a fresh array, not an alias of self.state
get_state_vector(st) == [alias |-> FALSE, written |-> FALSE, v |-> st]

\* run_algorithm up to its visualize_state call: the state the apply_gate
\* calls of the branch leave (none of them raises)
RECURSIVE superposition_loop(_, _, _)
superposition_loop(n, i, st) ==
    IF i >= n THEN st
    ELSE superposition_loop(n, i + 1, apply_gate(n, st, "H", i, None).state)

run_algorithm(n, st, algorithm_name) ==
    IF algorithm_name = "superposition" THEN superposition_loop(n, 0, st)
    ELSE IF algorithm_name = "entanglement"
         THEN apply_gate(n, apply_gate(n, st, "H", 0, None).state,
                         "CNOT", 1, Some(0)).state
         ELSE st

(* ------------------------------- inputs ------------------------------- *)
NumQubitsInputs == (0 - 1)..MaxSize
\* the catalog and a name that is not in it
GateNameInputs == DOMAIN gates \cup {"CZ"}
\* every qubit index of an n-qubit register, one below and one above
QubitInputs(n) == (0 - 1)..n
\* no control qubit, every qubit index, and one above
ControlInputs(n) == {None} \cup {Some(c) : c \in 0..n}
AlgorithmInputs == {"superposition", "entanglement", "grover"}

WithinBounds(n, st) == n + st.sde <= MaxSize

(* ------------------------------ actions ------------------------------- *)
\* last when the caller is between two calls
Idle == [op |-> "idle", args |-> <<>>, pre |-> NoState, ret |-> ReturnsNone]

Call(op, args, pre, ret) == [op |-> op, args |-> args, pre |-> pre, ret |-> ret]

Init ==
    /\ constructed = FALSE
    /\ num_qubits = 0
    /\ state = NoState
    /\ last = Idle
    /\ returned = None
    /\ collapsed = None

Construct ==
    /\ last = Idle
    /\ ~constructed
    /\ \E num \in NumQubitsInputs :
       \E r \in {init(num)} :
          /\ constructed' = r.ok
          /\ num_qubits' = IF r.ok THEN num ELSE 0
          /\ state' = r.state
          /\ last' = Call("__init__", <<num>>, state, r.ret)
    /\ UNCHANGED <<returned, collapsed>>

ApplyGate ==
    /\ last = Idle
    /\ constructed
    /\ \E gate_name \in GateNameInputs,
          target_qubit \in QubitInputs(num_qubits),
          control_qubit \in ControlInputs(num_qubits) :
       \E r \in {apply_gate(num_qubits, state, gate_name, target_qubit,
                           control_qubit)} :
          /\ WithinBounds(num_qubits, r.state)
          /\ state' = r.state
          /\ last' = Call("apply_gate",
                          <<gate_name, target_qubit, control_qubit>>,
                          state, r.ret)
          /\ collapsed' = IF r.state # state THEN None ELSE collapsed
    /\ UNCHANGED <<constructed, num_qubits, returned>>

MeasureAll ==
    /\ last = Idle
    /\ constructed
    /\ \E r \in measure_all(num_qubits, state) :
          /\ state' = r.state
          /\ last' = Call("measure", <<>>, state, r.ret)
          /\ collapsed' =
                 IF r.ret.exc = ""
                 THEN Some([outcome |-> r.ret.val[1],
                            again |-> collapsed # None])
                 ELSE collapsed
    /\ UNCHANGED <<constructed, num_qubits, returned>>

MeasureQubit ==
    /\ last = Idle
    /\ constructed
    /\ \E qubit \in QubitInputs(num_qubits) :
       \E r \in measure_qubit(num_qubits, state, qubit) :
          /\ state' = r.state
          /\ last' = Call("measure_qubit", <<qubit>>, state, r.ret)
    /\ UNCHANGED <<constructed, num_qubits, returned, collapsed>>

\* run_algorithm: the apply_gate calls of the branch, then visualize_state
RunAlgorithm ==
    /\ last = Idle
    /\ constructed
    /\ \E algorithm_name \in AlgorithmInputs :
       \E st \in {run_algorithm(num_qubits, state, algorithm_name)} :
          /\ WithinBounds(num_qubits, st)
          /\ state' = st
          /\ collapsed' = IF st # state THEN None ELSE collapsed
          /\ last' = Call("run_algorithm", <<algorithm_name>>, state,
                          ReturnsNone)
    /\ UNCHANGED <<constructed, num_qubits, returned>>

\* the array handed back is kept in returned, not in last.ret
GetStateVector ==
    /\ last = Idle
    /\ constructed
    /\ returned' = Some(get_state_vector(state))
    /\ last' = Call("get_state_vector", <<>>, state, ReturnsNone)
    /\ UNCHANGED <<constructed, num_qubits, state, collapsed>>

\* visualize_state only reads self.state and prints
VisualizeState ==
    /\ last = Idle
    /\ constructed
    /\ last' = Call("visualize_state", <<>>, state, ReturnsNone)
    /\ UNCHANGED <<constructed, num_qubits, state, returned, collapsed>>

\* the caller stores 0 into element i of the array get_state_vector gave it
\* (one store per array)
CallerWrite ==
    /\ returned # None
    /\ ~returned[1].written
    /\ \E i \in DOMAIN returned[1].v.amp :
       \E w \in {[returned[1].v EXCEPT !.amp[i] = Zero]} :
          /\ returned' = Some([returned[1] EXCEPT !.v = w, !.written = TRUE])
          /\ state' = IF returned[1].alias THEN w ELSE state
    /\ UNCHANGED <<constructed, num_qubits, last, collapsed>>

\* the caller takes the result of the call and goes on; it keeps no array
Resume ==
    /\ last # Idle
    /\ last' = Idle
    /\ returned' = None
    /\ UNCHANGED <<constructed, num_qubits, state, collapsed>>

Next ==
    \/ Construct
    \/ ApplyGate
    \/ MeasureAll
    \/ MeasureQubit
    \/ RunAlgorithm
    \/ GetStateVector
    \/ VisualizeState
    \/ CallerWrite
    \/ Resume

Spec == Init /\ [][Next]_vars

(* ------------------------------ claims -------------------------------- *)
Dim == Pow2(num_qubits)
Qubits == 0..(num_qubits - 1)
Support(st) == {i \in DOMAIN st.amp : st.amp[i] # Zero}

\* C1: after construction with num_qubits >= 1 and any sequence of
\* apply_gate, measure() and measure(qubit) calls, the squared magnitudes of
\* the amplitudes sum to 1.
C1_UnitNorm == (constructed /\ num_qubits >= 1) => UnitNorm(state)

\* a T gate has just been applied to a two-qubit superposition
C1_Witness ==
    /\ constructed
    /\ num_qubits = 2
    /\ state.sde = 1
    /\ last.op = "apply_gate"
    /\ last.args[1] = "T"
    /\ last.args[3] = None
    /\ last.pre # state

\* the amplitudes the claim expects of a controlled gate: unchanged where
\* the control bit of the index is 0, the 2x2 matrix applied to the target
\* bit where it is 1
ControlledExpected(st, m, control, target) ==
    LET flip(i, b) == i + (b - Bit(i, target)) * Pow2(target)
        amp(i) ==
            IF Bit(i, control) = 0
            THEN CMul(IF m.sde = 1 THEN <<0, 1, 0, 0 - 1>> ELSE One, st.amp[i])
            ELSE CAdd(CMul(m.e[Bit(i, target)][0], st.amp[flip(i, 0)]),
                      CMul(m.e[Bit(i, target)][1], st.amp[flip(i, 1)]))
    IN Canon([amp |-> [i \in DOMAIN st.amp |-> amp(i)],
              sde |-> st.sde + m.sde])

\* C2: apply_gate with a control qubit (control # target, both in [0, n))
\* leaves the amplitudes whose control bit is 0 unchanged and applies the
\* gate to the target bit where the control bit is 1; on two qubits in the
\* all-zero state H on qubit 0 followed by CNOT(control 0, target 1) leaves
\* nonzero amplitudes, of equal magnitude, at 00 and 11 only.
C2_ControlledGate ==
    /\ (/\ last.op = "apply_gate"
        /\ last.args[1] \in {"I", "X", "Y", "Z", "H", "S", "T"}
        /\ last.args[3] # None
        /\ last.args[2] \in Qubits
        /\ last.args[3][1] \in Qubits
        /\ last.args[3][1] # last.args[2])
       => state = ControlledExpected(last.pre, gates[last.args[1]].matrix,
                                     last.args[3][1], last.args[2])
    /\ (/\ last.op = "run_algorithm"
        /\ last.args[1] = "entanglement"
        /\ num_qubits = 2
        /\ last.pre = OneHot(4, 0))
       => /\ Support(state) = {0, 3}
          /\ AbsSq(state.amp[0]) = AbsSq(state.amp[3])

\* C3: after measure(q) returned r, every index with a nonzero amplitude
\* has bit q equal to r, and the state has unit norm.
C3_QubitCollapse ==
    (/\ last.op = "measure_qubit"
     /\ last.args[1] \in Qubits
     /\ last.ret.exc = "")
    => /\ \A i \in Support(state) : Bit(i, last.args[1]) = last.ret.val[1]
       /\ UnitNorm(state)

\* C4: with n >= 2, X on qubit t of the all-zero state gives the basis state
\* whose index has exactly bit t set; measure(t) then returns 1 and
\* measure(u) returns 0 for every other qubit u.
C4_BitConvention ==
    (/\ last.op = "apply_gate"
     /\ num_qubits >= 2
     /\ last.args[1] = "X"
     /\ last.args[2] \in Qubits
     /\ last.args[3] = None
     /\ last.pre = OneHot(Dim, 0))
    => /\ state = OneHot(Dim, Pow2(last.args[2]))
       /\ \A u \in Qubits :
             measure_qubit(num_qubits, state, u)
                 = {[state |-> state,
                     ret |-> Returns(IF u = last.args[2] THEN 1 ELSE 0)]}

\* C5: on a register of n >= 1 qubits, apply_gate with a target or control
\* outside [0, n) or with control = target, and measure(q) with q outside
\* [0, n), raise instead of returning, and leave the state vector unchanged.
C5_InvalidIndexRejected ==
    /\ (/\ last.op = "apply_gate"
        /\ num_qubits >= 1
        /\ last.args[1] \in DOMAIN gates
        /\ \/ last.args[2] \notin Qubits
           \/ /\ last.args[3] # None
              /\ \/ last.args[3][1] \notin Qubits
                 \/ last.args[3][1] = last.args[2])
       => (last.ret.exc # "" /\ state = last.pre)
    /\ (/\ last.op = "measure_qubit"
        /\ num_qubits >= 1
        /\ last.args[1] \notin Qubits)
       => (last.ret.exc # "" /\ state = last.pre)

\* C6: measure() returns an index r in [0, 2^n) whose amplitude was nonzero
\* before the call, and leaves the one-hot state at r.
C6_MeasureCollapses ==
    last.op = "measure"
    => /\ last.ret.exc = ""
       /\ last.ret.val[1] \in 0..(Dim - 1)
       /\ last.pre.amp[last.ret.val[1]] # Zero
       /\ state = OneHot(Dim, last.ret.val[1])

\* measure() has just collapsed a superposition of two qubits
C6_Witness ==
    /\ last.op = "measure"
    /\ num_qubits = 2
    /\ Cardinality(Support(last.pre)) >= 2
    /\ last.ret.val[1] # 0

\* C7: apply_gate with a name outside the catalog raises the unknown-gate
\* error for any target and control, and the state vector is the one before
\* the call.
C7_UnknownGateRejected ==
    (last.op = "apply_gate" /\ last.args[1] \notin DOMAIN gates)
    => (last.ret = Raises(UnknownGate) /\ state = last.pre)

\* an unknown name was given with a control qubit while in superposition
C7_Witness ==
    /\ last.op = "apply_gate"
    /\ last.args[1] \notin {"I", "X", "Y", "Z", "H", "S", "T", "CNOT"}
    /\ last.args[3] # None
    /\ state.sde >= 1

\* C8: the constructor raises for num_qubits < 1 and leaves no simulator;
\* for num_qubits >= 1 it leaves the state of length 2^num_qubits with
\* amplitude 1 at index 0.
C8_ConstructorValidates ==
    last.op = "__init__"
    => IF last.args[1] < 1
       THEN ~constructed /\ last.ret.exc # ""
       ELSE /\ constructed
            /\ num_qubits = last.args[1]
            /\ state = OneHot(Pow2(last.args[1]), 0)

\* C9: get_state_vector and visualize_state leave self.state as it was, and
\* so does a store of the caller into the array get_state_vector returned.
C9_ObserversPure ==
    last.op \in {"get_state_vector", "visualize_state"}
    => state = last.pre

\* the caller has stored into the array it got while in superposition
C9_Witness ==
    /\ last.op = "get_state_vector"
    /\ returned # None
    /\ returned[1].written
    /\ returned[1].v # state
    /\ state.sde >= 1

\* C10: once measure() has returned r and no apply_gate has changed the
\* state since (measure(q), get_state_vector, visualize_state may have been
\* called), measure() can only return r again and leaves the state
\* unchanged.
C10_MeasureStable ==
    collapsed # None
    => measure_all(num_qubits, state)
           = {[state |-> state, ret |-> Returns(collapsed[1].outcome)]}

\* measure() has just been called again after an earlier measure() whose
\* outcome no apply_gate has disturbed
C10_Witness ==
    /\ collapsed # None
    /\ collapsed[1].again
    /\ collapsed[1].outcome # 0
    /\ last.op = "measure"
    /\ last.ret = Returns(collapsed[1].outcome)
    /\ num_qubits >= 1

=============================================================================
